---- MODULE Spec2Model ----
(***************************************************************************)
(* Model of concord4-rs: the Concord 4 automation-module client.           *)
(*                                                                         *)
(*  - Codec      : Concord4Codec::decode and its helpers (src/serial.rs)   *)
(*  - Link layer : Serial::serial_loop / Stream::poll_next (src/serial.rs) *)
(*  - State store: ConcordState handlers (src/state.rs)                    *)
(*                                                                         *)
(* Bytes are integers 0..255.  Time is the number of seconds elapsed since *)
(* last_send, sampled at the values that the code's comparisons separate.  *)
(***************************************************************************)
EXTENDS Integers, Sequences, FiniteSets, TLC

\* ------------------------------------------------------------------ bounds
ChanCap == 2            \* capacity of the command channel (32 in the code)
MaxBacklog == 1         \* the panel writes while at most this many bytes are unread
MaxKeys == 252          \* longest key list given to the encoder
MaxFrames == 3          \* most frames and control bytes in one byte stream
MaxOwed == 2            \* most commands and answers under way to and from the panel

\* --------------------------------------------------------------- constants
ACK == 6
NAK == 21
LF == 10
BYTE == 2
TIMEOUT_THRESHOLD == 2
BOOTSTRAP_SECS == 10
MAX_RETRIES == 5

\* Elapsed-time samples, one per class that the comparisons `< 2`, `>= 2`
\* and `> 10` of serial_loop distinguish.
ClockValues == {0, TIMEOUT_THRESHOLD, BOOTSTRAP_SECS + 1}

\* ------------------------------------------------------------------ codec
IsHexDigit(c) == (c \in 48..57) \/ (c \in 65..70) \/ (c \in 97..102)

HexDigit(c) == IF c \in 48..57 THEN c - 48
               ELSE IF c \in 65..70 THEN c - 55
               ELSE c - 87

\* str::from_utf8 on a two-byte chunk
Utf8Ok(c1, c2) == \/ (c1 < 128 /\ c2 < 128)
                  \/ (c1 \in 194..223 /\ c2 \in 128..191)

\* u8::from_str_radix(s, 16) on a two-character string; a leading '+' is a sign
FromStrRadix(c1, c2) ==
  IF IsHexDigit(c1) /\ IsHexDigit(c2)
    THEN [ok |-> TRUE, val |-> 16 * HexDigit(c1) + HexDigit(c2)]
  ELSE IF c1 = 43 /\ IsHexDigit(c2)
    THEN [ok |-> TRUE, val |-> HexDigit(c2)]
  ELSE [ok |-> FALSE, val |-> 0]

\* ascii_hex_to_u8: panics (ok = FALSE) unless the two bytes are a hex number
ascii_hex_to_u8(c1, c2) ==
  IF Utf8Ok(c1, c2) THEN FromStrRadix(c1, c2) ELSE [ok |-> FALSE, val |-> 0]

\* ascii_hex_to_bin: chunks that are not UTF-8 are skipped (filter_map), the
\* first chunk that is not a hex number makes the whole result an Err
ChunksExact(hex) == [i \in 1..(Len(hex) \div 2) |-> <<hex[2 * i - 1], hex[2 * i]>>]
IsUtf8Chunk(ch) == Utf8Ok(ch[1], ch[2])
ParsedChunks(chunks) == [i \in 1..Len(chunks) |-> FromStrRadix(chunks[i][1], chunks[i][2])]
Collected(parsed) ==
  IF \A i \in 1..Len(parsed) : parsed[i].ok
    THEN [ok |-> TRUE, data |-> [i \in 1..Len(parsed) |-> parsed[i].val]]
    ELSE [ok |-> FALSE, data |-> <<>>]

ascii_hex_to_bin(hex) == Collected(ParsedChunks(SelectSeq(ChunksExact(hex), IsUtf8Chunk)))

\* the sum of s[lo..hi], by halves
RECURSIVE SumRange(_, _, _)
SumRange(s, lo, hi) ==
  IF lo > hi THEN 0
  ELSE IF lo = hi THEN s[lo]
  ELSE SumRange(s, lo, (lo + hi) \div 2) + SumRange(s, (lo + hi) \div 2 + 1, hi)

SumSeq(s) == SumRange(s, 1, Len(s))

compute_checksum(msg) == SumSeq(msg) % 256

validate_checksum(first_byte, msg, checksum) ==
  checksum = compute_checksum(<<first_byte>> \o msg)

\* mutant: the last such byte instead of the first
Position_Last(s, S) ==
  IF \E i \in 1..Len(s) : s[i] \in S
    THEN CHOOSE i \in 1..Len(s) : s[i] \in S /\ \A j \in (i + 1)..Len(s) : s[j] \notin S
    ELSE 0

\* first index of a byte of s in set S, 0 when there is none
Position(s, S) ==
  IF \E i \in 1..Len(s) : s[i] \in S
    THEN CHOOSE i \in 1..Len(s) : s[i] \in S /\ \A j \in 1..(i - 1) : s[j] \notin S
    ELSE 0

\* RecvMessage::try_from, two-level table: (cmd, subcmd) -> variant
TwoLevel(cmd, subcmd) ==
  IF cmd = 34 THEN
       CASE subcmd = 1 -> "ArmingLevel"
         [] subcmd = 2 -> "AlarmTrouble"
         [] subcmd = 3 -> "EntryExitDelay"
         [] subcmd = 4 -> "SirenSetup"
         [] subcmd = 5 -> "SirenSync"
         [] subcmd = 6 -> "SirenGo"
         [] subcmd = 9 -> "Touchpad"
         [] subcmd = 11 -> "SirenStop"
         [] subcmd = 12 -> "FeatState"
         [] subcmd = 13 -> "Temp"
         [] subcmd = 14 -> "TimeAndDate"
         [] OTHER -> "Err"
  ELSE IF cmd = 35 THEN
       CASE subcmd = 1 -> "LightsState"
         [] subcmd = 2 -> "UserLights"
         [] subcmd = 3 -> "Keyfob"
         [] OTHER -> "Err"
  ELSE "Err"

\* RecvMessage::try_from, first-byte table
OneLevel(cmd) ==
  CASE cmd = 1 -> "PanelType"
    [] cmd = 2 -> "AutomationEventLost"
    [] cmd = 3 -> "ZoneData"
    [] cmd = 4 -> "PartitionData"
    [] cmd = 5 -> "SuperBusDevData"
    [] cmd = 6 -> "SuperBusDevCap"
    [] cmd = 7 -> "OutputData"
    [] cmd = 8 -> "EqptListDone"
    [] cmd = 9 -> "UserData"
    [] cmd = 10 -> "SchedData"
    [] cmd = 11 -> "SchedEventData"
    [] cmd = 12 -> "LightAttach"
    [] cmd = 32 -> "ClearImage"
    [] cmd = 33 -> "ZoneStatus"
    [] cmd = 35 -> "LightsState"
    [] OTHER -> "Err"

\* Number of bytes the fixed-offset reads of a variant's parser index; a
\* shorter payload is an out-of-bounds index (panic).
MinLen(kind) ==
  CASE kind = "PanelType" -> 9
    [] kind = "ZoneData" -> 7
    [] kind = "PartitionData" -> 3
    [] kind = "SuperBusDevData" -> 6
    [] kind = "SuperBusDevCap" -> 4
    [] kind = "UserData" -> 2
    [] kind = "ZoneStatus" -> 5
    [] kind = "ArmingLevel" -> 5
    [] kind = "AlarmTrouble" -> 8
    [] kind = "Touchpad" -> 3
    [] kind = "SirenStop" -> 2
    [] kind = "FeatState" -> 3
    [] kind = "TimeAndDate" -> 5
    [] OTHER -> 0

NoItem == [kind |-> "None", data |-> <<>>]

\* RecvMessage::try_from(value): res is "Ok", "Err" or "Panic"
TryFrom(value) ==
  IF Len(value) = 0 THEN [res |-> "Panic", item |-> NoItem]
  ELSE LET cmd == value[1]
           two == IF Len(value) > 1 THEN TwoLevel(cmd, value[2]) ELSE "Err"
           kind == IF two # "Err" THEN two ELSE OneLevel(cmd)
           data == IF two # "Err" THEN SubSeq(value, 3, Len(value))
                   ELSE SubSeq(value, 2, Len(value))
       IN IF kind = "Err" THEN [res |-> "Err", item |-> NoItem]
          ELSE IF Len(data) < MinLen(kind) THEN [res |-> "Panic", item |-> NoItem]
          ELSE [res |-> "Ok", item |-> [kind |-> kind, data |-> data]]

\* Concord4Codec::decode(src): the emitted item (NoItem for Ok(None)), the
\* buffer it leaves, and what happened (ev)
Decode(src) ==
  LET ctrl_pos == Position(src, {ACK, NAK})
      lf_pos == Position(src, {LF})
      None(b, e) == [item |-> NoItem, buf |-> b, ev |-> e]
  IN
  IF src = <<>> THEN None(src, "empty")
  ELSE IF ctrl_pos # 0 /\ lf_pos # 0 /\ ctrl_pos < lf_pos
    THEN [item |-> [kind |-> IF src[ctrl_pos] = ACK THEN "Ack" ELSE "Nak", data |-> <<>>],
          buf |-> SubSeq(src, 1, ctrl_pos - 1) \o SubSeq(src, ctrl_pos + 1, Len(src)),
          ev |-> "ctrl"]
  ELSE IF lf_pos = 0 THEN None(src, "wait")
  ELSE IF Len(src) < lf_pos + BYTE THEN None(src, "wait")
  ELSE
    LET len == ascii_hex_to_u8(src[lf_pos + 1], src[lf_pos + 2])
        data_len == len.val
        data_len_in_buffer == data_len * BYTE
    IN
    IF ~len.ok THEN None(src, "panic")
    ELSE IF data_len_in_buffer = 0 \/ Len(src) < lf_pos + BYTE + data_len_in_buffer
      THEN None(src, "wait")
    ELSE
      LET rest == SubSeq(src, lf_pos + BYTE + data_len_in_buffer + 1, Len(src))
          bin == ascii_hex_to_bin(SubSeq(src, lf_pos + BYTE + 1, lf_pos + BYTE + data_len_in_buffer))
      IN
      IF ~bin.ok THEN None(rest, "nonhex")
      ELSE IF bin.data = <<>> THEN None(rest, "panic")
      ELSE
        LET checksum == bin.data[Len(bin.data)]
            data == SubSeq(bin.data, 1, Len(bin.data) - 1)
            parsed == TryFrom(data)
        IN
        IF ~validate_checksum(data_len, data, checksum) THEN None(rest, "checksum")
        ELSE IF parsed.res = "Panic" THEN None(rest, "panic")
        ELSE IF parsed.res = "Err" THEN None(rest, "parse")
        ELSE [item |-> parsed.item, buf |-> rest, ev |-> "frame"]


\* ---------------------------------------------------------------- encoder
\* Option<T>: None is <<>>, Some(x) is <<x>>
UnwrapOr(opt, default) == IF opt = <<>> THEN default ELSE opt[1]

\* `{b:02X}`: one upper-case hex digit
HexChar(n) == IF n < 10 THEN 48 + n ELSE 55 + n

\* ascii_hex_to_string: two upper-case hex digits per byte
ascii_hex_to_string(hex) ==
  [i \in 1..(2 * Len(hex)) |->
     IF i % 2 = 1 THEN HexChar(hex[(i + 1) \div 2] \div 16)
     ELSE HexChar(hex[i \div 2] % 16)]

\* handle_keypress: what is appended to data
handle_keypress(partition, keys) == <<64, partition, 0>> \o keys

\* mutant: the key for instant arming goes before the code
ArmKeys_InstantFirst(options) ==
  (IF options.mode = "Stay"
     THEN IF options.level = <<"Silent">> THEN <<5, 2>> ELSE <<2>>
     ELSE IF options.level = <<"Silent">> THEN <<5, 3>> ELSE <<3>>)
  \o (IF options.level = <<"Instant">> THEN <<4>> ELSE <<>>)
  \o options.code

\* lines 361-377: the keys of an Arm command
ArmKeys(options) ==
  (IF options.mode = "Stay"
     THEN IF options.level = <<"Silent">> THEN <<5, 2>> ELSE <<2>>
     ELSE IF options.level = <<"Silent">> THEN <<5, 3>> ELSE <<3>>)
  \o options.code
  \o (IF options.level = <<"Instant">> THEN <<4>> ELSE <<>>)

\* enum ListRequest, its variants in the order of declaration
ListRequest ==
  <<"AllData", "ZoneData", "PartData", "BusDevData", "BusCapData",
    "OutputData", "UserData", "ScheduleData", "EventData", "LightAttach">>

\* `req as u8`: the discriminant of a variant, its position counted from 0
AsU8(req) == (CHOOSE i \in DOMAIN ListRequest : ListRequest[i] = req) - 1

\* lines 342-396: what the match pushes after the length placeholder
EncodeBody(m) ==
  CASE m.cmd = "List" -> IF m.req = "AllData" THEN <<2>> ELSE <<2, AsU8(m.req)>>
    [] m.cmd = "Arm" -> handle_keypress(UnwrapOr(m.partition, 1), ArmKeys(m))
    [] m.cmd = "Disarm" -> handle_keypress(UnwrapOr(m.partition, 1), <<1>> \o m.code)
    [] m.cmd = "ToggleChime" -> handle_keypress(UnwrapOr(m.partition, 1), <<7, 1>>)
    [] m.cmd = "Keypress" -> handle_keypress(m.partition[1], m.keys)
    [] m.cmd = "DynamicDataRefresh" -> <<32>>

\* data[0] = data.len() as u8
LengthByte(body) == (1 + Len(body)) % 256

\* lines 398-407: length byte, checksum, hex text after "\n"
EncodeFrame(body) ==
  <<LF>> \o ascii_hex_to_string(
    <<LengthByte(body)>> \o body \o <<compute_checksum(<<LengthByte(body)>> \o body)>>)

\* Concord4Codec::encode(item, dst): the bytes put into dst
encode(m) ==
  IF m.cmd = "Ack" THEN <<ACK>>
  ELSE IF m.cmd = "Nak" THEN <<NAK>>
  ELSE EncodeFrame(EncodeBody(m))

\* messages given to the encoder: every variant, the default and an explicit
\* partition, short key lists and lists at the width of the length byte
KeyCounts == {0, 1, 2, MaxKeys - 1, MaxKeys}
KeyLists == {[i \in 1..n |-> k] : n \in KeyCounts, k \in {0, 54}} \cup {<<1, 11>>}
Codes == {<<1, 2, 3, 4>>, <<54, 54, 54, 54>>}
OptPartitions == {<<>>, <<2>>}
ListRequests == {ListRequest[i] : i \in DOMAIN ListRequest}
\* a SendableMessage value; the fields a variant does not have are left empty
\* (req and mode "", the rest <<>>), and Keypress holds its partition as <<p>>
Message(cmd, req, mode, level, code, partition, keys) ==
  [cmd |-> cmd, req |-> req, mode |-> mode, level |-> level, code |-> code,
   partition |-> partition, keys |-> keys]
Plain(cmd) == Message(cmd, "", "", <<>>, <<>>, <<>>, <<>>)
EncodeInputs ==
  {Plain("Ack"), Plain("Nak"), Plain("DynamicDataRefresh")}
  \cup {Message("List", r, "", <<>>, <<>>, <<>>, <<>>) : r \in ListRequests}
  \cup {Message("ToggleChime", "", "", <<>>, <<>>, p, <<>>) : p \in OptPartitions}
  \cup {Message("Disarm", "", "", <<>>, c, p, <<>>) : c \in Codes, p \in OptPartitions}
  \cup {Message("Arm", "", o[1], o[2], o[3], o[4], <<>>) :
          o \in {"Stay", "Away"} \X {<<>>, <<"Normal">>, <<"Silent">>, <<"Instant">>}
                \X Codes \X OptPartitions}
  \cup {Message("Keypress", "", "", <<>>, <<>>, <<p>>, ks) : p \in {1, 255}, ks \in KeyLists}

\* ------------------------------------------------------- outbound messages
ListAllData == "List(AllData)"
DynamicDataRefresh == "DynamicDataRefresh"
Keypress == "Keypress"

SendableMessage == {"Ack", "Nak", ListAllData, DynamicDataRefresh, Keypress}
\* what callers submit through the public sender: data commands, or anything
DataCommands == {Keypress}
AnyCommands == {"Ack", "Nak", Keypress}
IsDataCommand(m) == m \in SendableMessage \ {"Ack", "Nak"}

\* ---------------------------------------------------------- inbound bytes
\* "\n" followed by the ASCII-hex text of the given characters
Frame(chars) == <<LF>> \o chars

EqptListDoneFrame == Frame(<<48, 50, 48, 56, 48, 65>>)      \* 02 08 0A
ClearImageFrame == Frame(<<48, 50, 50, 48, 50, 50>>)        \* 02 20 22
BadChecksumFrame == Frame(<<48, 50, 48, 49, 70, 70>>)       \* 02 01 FF
UnknownCommandFrame == Frame(<<48, 50, 51, 48, 51, 50>>)    \* 02 30 32
\* EqptListDone with one character that is no hex digit
NonHexLengthFrame == Frame(<<71, 50, 48, 56, 48, 65>>)      \* G2 08 0A
NonHexPayloadFrame == Frame(<<48, 50, 48, 71, 48, 65>>)     \* 02 0G 0A
SignedPayloadFrame == Frame(<<48, 50, 43, 56, 48, 65>>)     \* 02 +8 0A
\* a frame whose length field is 00
ZeroLengthFrame == Frame(<<48, 48>>)                        \* 00
\* checksum-valid frames with no body, and with the command byte of ZoneData
\* and none of its fields
EmptyBodyFrame == Frame(<<48, 49, 48, 49>>)                 \* 01 01
ShortZoneDataFrame == Frame(<<48, 50, 48, 51, 48, 53>>)     \* 02 03 05

\* what the panel may put on the line in one write: protocol traffic, traffic
\* with damaged frames, and the minimum that keeps a session going
PanelItems == {<<ACK>>, <<NAK>>, EqptListDoneFrame, ClearImageFrame}
FaultyItems == {<<ACK>>, EqptListDoneFrame, BadChecksumFrame, UnknownCommandFrame}
BasicItems == {<<NAK>>, EqptListDoneFrame}
\* frames the decoder cannot parse, and frames it drops with a valid frame
\* behind them in the same write
BrokenItems ==
  {EmptyBodyFrame, ShortZoneDataFrame, EqptListDoneFrame,
   BadChecksumFrame \o EqptListDoneFrame,
   NonHexPayloadFrame \o ClearImageFrame,
   UnknownCommandFrame \o EqptListDoneFrame}

VARIABLES
  \* Serial (src/serial.rs)
  has_errored, preparing, ready, sending, resend, elapsed, retry_count,
  last_message, rx,
  \* Framed<SerialStream, Concord4Codec>: decode buffer and read state
  serial,
  \* the serial device: bytes received and not yet read, end of file
  port, closed,
  \* what the step just taken did: messages written to the port, frames the
  \* decoder consumed, poll_next's result (NoPoll when the step was no poll)
  wire, events, yielded, panicked,
  \* ConcordState (src/state.rs), and the record handle_result handled last
  zones, partitions, groups, panel, handled,
  \* Concord4Codec on its own: the message given to encode and the bytes it
  \* put into dst; the bytes still to arrive, the decoder's buffer, the
  \* frames those bytes were made of and the items decode has returned
  enc_item, enc_dst, dec_feed, dec_src, dec_sent, dec_out,
  \* Concord4 (src/lib.rs): the kind of the message reader_listen handled
  \* last, state.initialized, where a wait_ready call is, the writer channel,
  \* whether writer_listen is waiting for the panel's answer, and what the
  \* step just taken wrote to the port
  reader_msg, initialized, waiter, writer_rx, writer_waiting, writer_out,
  \* the task that polls the stream: whether it has been woken, and whether
  \* its waker is registered with the command channel
  woken, rx_waker,
  \* the panel: the commands it has received and not yet answered, and the
  \* commands that the Ack bytes now on the line answer, oldest first
  owed, acks

linkVars == <<has_errored, preparing, ready, sending, resend, elapsed,
              retry_count, last_message, rx, serial, port, closed,
              wire, events, yielded, panicked>>
storeVars == <<zones, partitions, groups, panel, handled>>
codecVars == <<enc_item, enc_dst, dec_feed, dec_src, dec_sent, dec_out>>
facadeVars == <<reader_msg, initialized, waiter, writer_rx, writer_waiting, writer_out>>
wakeVars == <<woken, rx_waker>>
panelVars == <<owed, acks>>
extVars == <<codecVars, facadeVars, wakeVars, panelVars>>
vars == <<linkVars, storeVars, extVars>>

\* ------------------------------------------------ Framed stream: next()
\* FramedRead::poll_next over Concord4Codec.  f = [buffer, is_readable, eof,
\* has_errored], p = unread bytes of the device, c = device at end of file.
\* res: "Item" (Some(Ok)), "Err" (Some(Err)), "None", "Pending", "Panic".
RECURSIVE FramedNext(_, _, _, _)
RECURSIVE FramedDecoded(_, _, _, _, _)
\* the readable state: d is what decode (or decode_eof) returned on f.buffer
FramedDecoded(f, p, c, evs, d) ==
  LET g == [f EXCEPT !.buffer = d.buf]
      e == IF d.ev \in {"empty", "wait"} THEN evs ELSE Append(evs, d.ev)
  IN IF d.ev = "panic"
       THEN [res |-> "Panic", item |-> NoItem, port |-> p, events |-> e, f |-> g]
     ELSE IF d.item # NoItem
       THEN [res |-> "Item", item |-> d.item, port |-> p, events |-> e, f |-> g]
     ELSE IF ~f.eof
       THEN FramedNext([g EXCEPT !.is_readable = FALSE], p, c, e)
     ELSE IF d.buf = <<>>
       THEN [res |-> "None", item |-> NoItem, port |-> p, events |-> e,
             f |-> [g EXCEPT !.is_readable = FALSE]]
     ELSE \* decode_eof: bytes remaining on stream
          [res |-> "Err", item |-> NoItem, port |-> p, events |-> Append(e, "eof_err"),
           f |-> [g EXCEPT !.has_errored = TRUE]]

FramedNext(f, p, c, evs) ==
  IF f.has_errored
    THEN [res |-> "None", item |-> NoItem, port |-> p, events |-> evs,
          f |-> [f EXCEPT !.is_readable = FALSE, !.has_errored = FALSE]]
  ELSE IF f.is_readable
    THEN FramedDecoded(f, p, c, evs, Decode(f.buffer))
  ELSE IF p # <<>>
    THEN FramedNext([f EXCEPT !.buffer = @ \o p, !.eof = FALSE, !.is_readable = TRUE],
                    <<>>, c, evs)
  ELSE IF ~c
    THEN [res |-> "Pending", item |-> NoItem, port |-> p, events |-> evs, f |-> f]
  ELSE IF f.eof
    THEN [res |-> "None", item |-> NoItem, port |-> p, events |-> evs, f |-> f]
  ELSE FramedNext([f EXCEPT !.eof = TRUE, !.is_readable = TRUE], p, c, evs)


\* ------------------------------------------------------------- link layer
\* The Serial struct and what it owns, as one record, so that the stages of
\* serial_loop can be composed.
Self == [has_errored |-> has_errored, preparing |-> preparing, ready |-> ready,
         sending |-> sending, resend |-> resend, elapsed |-> elapsed,
         retry_count |-> retry_count, last_message |-> last_message,
         rx |-> rx, serial |-> serial, port |-> port,
         wire |-> <<>>, events |-> <<>>, rx_polled |-> FALSE]

Write(s, src, msg) == [s EXCEPT !.wire = Append(@, [src |-> src, msg |-> msg])]

\* mpsc::Sender::send: room in the bounded channel, and the enqueue
HasCapacity(q) == Len(q) < ChanCap
Enqueue(q, msg) == Append(q, msg)
\* mutant: the newest message is handed out first
RecvHead_Newest(q) == q[Len(q)]

\* mpsc::Receiver::recv: the message handed out, and what stays queued
RecvHead(q) == Head(q)
RecvRest(q) == Tail(q)

NoPoll == [tag |-> "NoPoll", kind |-> "", data |-> <<>>]
Pending == [tag |-> "Pending", kind |-> "", data |-> <<>>]
StreamEnd == [tag |-> "None", kind |-> "", data |-> <<>>]
Panicked == [tag |-> "Panic", kind |-> "", data |-> <<>>]
OkNone == [tag |-> "OkNone", kind |-> "", data |-> <<>>]
OkSome(item) == [tag |-> "Ok", kind |-> item.kind, data |-> item.data]
Error(e) == [tag |-> "Err", kind |-> e, data |-> <<>>]

\* mutant: the list request is made at once, without the 10 s
BootstrapDue_Immediate(s) ==
  ~s.ready /\ ~s.preparing /\ ~s.sending

\* line 77: the bootstrap fallback is due
BootstrapDue(s) ==
  ~s.ready /\ ~s.preparing /\ ~s.sending /\ s.elapsed > BOOTSTRAP_SECS

\* lines 80-85, once tx.send has completed
Bootstrap(s) ==
  [s EXCEPT !.rx = Enqueue(@, ListAllData), !.preparing = TRUE]

\* lines 88-105: retransmission of the stored message
Resend(s) ==
  IF s.resend /\ s.last_message # "None"
    THEN [Write(s, "resend", s.last_message) EXCEPT
            !.resend = FALSE, !.elapsed = 0, !.sending = TRUE,
            !.retry_count = @ + 1]
    ELSE s

\* mutant: the command branch is not gated on the outstanding command
RecvEnabled_Ungated(s) == TRUE

\* lines 163-185: value of the precondition of the command branch
RecvEnabled(s) ==
  IF s.sending /\ s.elapsed < TIMEOUT_THRESHOLD THEN FALSE
  ELSE IF s.sending /\ s.elapsed >= TIMEOUT_THRESHOLD THEN FALSE
  ELSE TRUE

\* mutant: off by one in the retry limit
Precondition_OneMore(s) ==
  IF s.sending /\ s.elapsed >= TIMEOUT_THRESHOLD
    THEN IF s.retry_count <= MAX_RETRIES
           THEN [s EXCEPT !.resend = TRUE]
           ELSE [s EXCEPT !.sending = FALSE, !.preparing = FALSE, !.retry_count = 0]
    ELSE s

\* lines 169-179: what evaluating the precondition does to the state
Precondition(s) ==
  IF s.sending /\ s.elapsed >= TIMEOUT_THRESHOLD
    THEN IF s.retry_count < MAX_RETRIES
           THEN [s EXCEPT !.resend = TRUE]
           ELSE [s EXCEPT !.sending = FALSE, !.preparing = FALSE, !.retry_count = 0]
    ELSE s

\* mutant: a Nak asks for the stored message again
OnControl_NakResends(s, item) ==
  IF item.kind = "Nak"
    THEN [s |-> [s EXCEPT !.resend = TRUE], ret |-> OkSome(item)]
    ELSE [s |-> [s EXCEPT !.resend = FALSE, !.sending = FALSE,
                          !.last_message = "None", !.retry_count = 0],
          ret |-> OkSome(item)]

\* lines 112-125: an Ack or Nak frame from the panel
OnControl(s, item) ==
  [s |-> [s EXCEPT !.resend = FALSE, !.sending = FALSE,
                   !.last_message = "None", !.retry_count = 0],
   ret |-> OkSome(item)]

\* mutant: the acknowledgement is not written
Reply_Skipped(s) == s

\* line 127: the acknowledgement of an inbound item
Reply(s) == Write(s, "reply", "Ack")

\* lines 126-154: any other item of the stream (a Record or a decoder error).
\* A full command channel suspends tx.send; poll_next then drops the future.
OnRecord(s, res, item) ==
  LET a == Reply(s)
      ret == IF res = "Item" THEN OkSome(item) ELSE Error("Decoder")
  IN IF res = "Item" /\ item.kind = "EqptListDone" /\ ~a.ready
       THEN IF HasCapacity(a.rx)
              THEN [s |-> [a EXCEPT !.rx = Enqueue(@, DynamicDataRefresh),
                                    !.preparing = FALSE, !.ready = TRUE],
                    ret |-> ret]
              ELSE [s |-> a, ret |-> Pending]
     ELSE IF res = "Item" /\ item.kind = "ClearImage"
       THEN IF HasCapacity(a.rx)
              THEN [s |-> [a EXCEPT !.preparing = TRUE, !.rx = Enqueue(@, ListAllData)],
                    ret |-> ret]
              ELSE [s |-> [a EXCEPT !.preparing = TRUE], ret |-> Pending]
     ELSE [s |-> a, ret |-> ret]

\* lines 186-199: a command taken from the channel
OnCommand(s) ==
  LET message == RecvHead(s.rx)
  IN [s |-> [Write(s, "send", message) EXCEPT
               !.rx = RecvRest(@), !.elapsed = 0, !.sending = TRUE,
               !.last_message = message, !.retry_count = 0],
      ret |-> OkNone]

\* mutant: the command branch is tried before the inbound stream
SelectArm_CommandFirst(s, enabled, n) ==
  IF enabled /\ s.rx # <<>> THEN OnCommand(s)
  ELSE LET t == [s EXCEPT !.serial = n.f, !.port = n.port, !.events = n.events]
       IN CASE n.res = "Panic" -> [s |-> t, ret |-> Panicked]
            [] n.res = "Item" /\ n.item.kind \in {"Ack", "Nak"} -> OnControl(t, n.item)
            [] n.res = "Item" /\ n.item.kind \notin {"Ack", "Nak"} -> OnRecord(t, n.res, n.item)
            [] n.res = "Err" -> OnRecord(t, n.res, n.item)
            [] n.res = "None" ->
                 [s |-> [t EXCEPT !.has_errored = TRUE], ret |-> Error("SerialPortClosed")]
            [] n.res = "Pending" -> [s |-> [t EXCEPT !.rx_polled = enabled], ret |-> Pending]

\* lines 109-199: the arm the select takes; n is what self.serial.next() gave
SelectArm(s, enabled, n) ==
  LET t == [s EXCEPT !.serial = n.f, !.port = n.port, !.events = n.events]
  IN CASE n.res = "Panic" -> [s |-> t, ret |-> Panicked]
       [] n.res = "Item" /\ n.item.kind \in {"Ack", "Nak"} -> OnControl(t, n.item)
       [] n.res = "Item" /\ n.item.kind \notin {"Ack", "Nak"} -> OnRecord(t, n.res, n.item)
       [] n.res = "Err" -> OnRecord(t, n.res, n.item)
       [] n.res = "None" ->
            [s |-> [t EXCEPT !.has_errored = TRUE], ret |-> Error("SerialPortClosed")]
       [] n.res = "Pending" ->
            IF enabled /\ t.rx # <<>> THEN OnCommand(t)
            ELSE [s |-> [t EXCEPT !.rx_polled = enabled], ret |-> Pending]

\* lines 107-206: the biased select
Select(s, enabled) ==
  SelectArm(s, enabled, FramedNext(s.serial, s.port, closed, s.events))

\* lines 88-206: the loop body after the bootstrap step
AfterBootstrap(r) == Select(Precondition(r), RecvEnabled(r))

\* lines 76-207
serial_loop(s) ==
  IF BootstrapDue(s) /\ ~HasCapacity(s.rx)
    THEN [s |-> s, ret |-> Pending]
    ELSE AfterBootstrap(Resend(IF BootstrapDue(s) THEN Bootstrap(s) ELSE s))

\* lines 218-225: Ok(None) from serial_loop is reported as Pending
Ready(l) == IF l.ret = OkNone THEN [s |-> l.s, ret |-> Pending] ELSE l

\* mutant: the stream is polled again after it has ended
poll_next_Unguarded(s) == Ready(serial_loop(s))

\* lines 213-227: Stream::poll_next
poll_next(s) ==
  IF s.has_errored THEN [s |-> s, ret |-> StreamEnd]
  ELSE Ready(serial_loop(s))


\* ------------------------------------------------------------ state store
PartitionNumbers == {1, 2}
ZoneNumbers == {1, 2}
GroupNumbers == {1}
AreaNumbers == {0, 1}
ZoneStatuses == {"Normal", "Tripped"}
ArmingLevels == {"Off", "Away"}
PanelTypes == {"Concord", "ConcordExpress"}

\* the identifiers "p{partition}-z{zone}" and "p{partition}-g{group}"
ZoneId(p, z) == <<"p", p, "z", z>>
GroupId(p, g) == <<"p", p, "g", g>>

ZoneDataRecords ==
  [partition_number : PartitionNumbers, group_number : GroupNumbers,
   zone_number : ZoneNumbers, zone_status : ZoneStatuses]
ZoneStatusRecords ==
  [partition_number : PartitionNumbers, zone_number : ZoneNumbers,
   zone_status : ZoneStatuses]
PartitionDataRecords ==
  [partition_number : PartitionNumbers, area_number : AreaNumbers,
   arming_level : ArmingLevels]
ArmingLevelRecords ==
  [partition_number : PartitionNumbers, arming_level : ArmingLevels]

\* DashMap::insert
Insert(m, k, v) == [x \in DOMAIN m \cup {k} |-> IF x = k THEN v ELSE m[x]]

\* Group::new
NewGroup(p, g) == [partition_number |-> p, number |-> g, zones |-> {}]

\* handle_zone_data: the three maps after the call
ZoneDataPartitions(ps, data) ==
  LET p == data.partition_number
  IN IF p \in DOMAIN ps
       THEN [ps EXCEPT ![p].zones = @ \cup {ZoneId(p, data.zone_number)}]
       ELSE ps

ZoneDataGroups(gs, data) ==
  LET gid == GroupId(data.partition_number, data.group_number)
  IN IF gid \in DOMAIN gs
       THEN [gs EXCEPT ![gid].zones =
               @ \cup {ZoneId(data.partition_number, data.zone_number)}]
       ELSE Insert(gs, gid, NewGroup(data.partition_number, data.group_number))

\* mutant: the zone itself is not stored
ZoneDataZones_NotStored(zs, data) == zs

ZoneDataZones(zs, data) ==
  Insert(zs, ZoneId(data.partition_number, data.zone_number), data)

\* mutant: the zone set of the record is kept as parsed (empty)
PartitionZones_NotRecomputed(zs, p) == {}

\* handle_partition_data: the zone set computed from the stored zones
PartitionZones(zs, p) == {id \in DOMAIN zs : zs[id].partition_number = p}

PartitionDataPartitions(ps, zs, data) ==
  Insert(ps, data.partition_number,
         [partition_number |-> data.partition_number,
          area_number |-> data.area_number,
          arming_level |-> data.arming_level,
          zones |-> PartitionZones(zs, data.partition_number)])

handle_zone_data(data) ==
  /\ partitions' = ZoneDataPartitions(partitions, data)
  /\ groups' = ZoneDataGroups(groups, data)
  /\ zones' = ZoneDataZones(zones, data)
  /\ UNCHANGED panel

\* mutant: a status for an unknown zone creates the zone
ZoneStatusZones_Upsert(zs, data) ==
  Insert(zs, ZoneId(data.partition_number, data.zone_number),
         [partition_number |-> data.partition_number, group_number |-> 1,
          zone_number |-> data.zone_number, zone_status |-> data.zone_status])

\* handle_zone_status: entry(id).and_modify
ZoneStatusZones(zs, data) ==
  LET id == ZoneId(data.partition_number, data.zone_number)
  IN IF id \in DOMAIN zs
       THEN [zs EXCEPT ![id].zone_status = data.zone_status]
       ELSE zs

handle_zone_status(data) ==
  /\ zones' = ZoneStatusZones(zones, data)
  /\ UNCHANGED <<partitions, groups, panel>>

handle_partition_data(data) ==
  /\ partitions' = PartitionDataPartitions(partitions, zones, data)
  /\ UNCHANGED <<zones, groups, panel>>

\* mutant: an arming level for an unknown partition creates the partition
handle_arming_level_Creates(data) ==
  /\ partitions' = IF data.partition_number \in DOMAIN partitions
                     THEN [partitions EXCEPT
                             ![data.partition_number].arming_level = data.arming_level]
                     ELSE Insert(partitions, data.partition_number,
                                 [partition_number |-> data.partition_number,
                                  area_number |-> 0,
                                  arming_level |-> data.arming_level,
                                  zones |-> {}])
  /\ UNCHANGED <<zones, groups, panel>>

\* handle_arming_level: entry(partition_number).and_modify
handle_arming_level(data) ==
  /\ partitions' = IF data.partition_number \in DOMAIN partitions
                     THEN [partitions EXCEPT
                             ![data.partition_number].arming_level = data.arming_level]
                     ELSE partitions
  /\ UNCHANGED <<zones, groups, panel>>

\* OnceLock::set: only the first value is kept
handle_panel_type(data) ==
  /\ panel' = IF panel = "Unset" THEN data ELSE panel
  /\ UNCHANGED <<zones, partitions, groups>>

\* ---------------------------------------------------------------- actions
LinkInit ==
  /\ has_errored = FALSE /\ preparing = FALSE /\ ready = FALSE
  /\ sending = FALSE /\ resend = FALSE /\ elapsed = 0 /\ retry_count = 0
  /\ last_message = "None" /\ rx = <<>>
  /\ serial = [buffer |-> <<>>, is_readable |-> FALSE, eof |-> FALSE,
               has_errored |-> FALSE]
  /\ port = <<>> /\ closed = FALSE
  /\ wire = <<>> /\ events = <<>> /\ yielded = NoPoll /\ panicked = FALSE

StoreInit ==
  /\ zones = <<>> /\ partitions = <<>> /\ groups = <<>> /\ panel = "Unset"
  /\ handled = [kind |-> "None", data |-> <<>>]

CodecInit ==
  /\ enc_item = Plain("None") /\ enc_dst = <<>>
  /\ dec_feed = <<>> /\ dec_src = <<>> /\ dec_sent = <<>> /\ dec_out = <<>>

FacadeInit ==
  /\ reader_msg = "None" /\ initialized = FALSE /\ waiter = "idle"
  /\ writer_rx = <<>> /\ writer_waiting = FALSE /\ writer_out = "None"

WakeInit == woken = TRUE /\ rx_waker = FALSE

PanelInit == owed = <<>> /\ acks = <<>>

Init == LinkInit /\ StoreInit /\ CodecInit /\ FacadeInit /\ WakeInit /\ PanelInit

\* ------------------------------------------------------- codec on its own
\* a concatenation of valid frames and control bytes, as the list of its parts
RECURSIVE Flatten(_)
Flatten(parts) == IF parts = <<>> THEN <<>> ELSE Head(parts) \o Flatten(Tail(parts))

RECURSIVE SeqsUpTo(_, _)
SeqsUpTo(S, n) ==
  IF n = 0 THEN {<<>>}
  ELSE SeqsUpTo(S, n - 1) \cup
       {Append(q, x) : q \in {r \in SeqsUpTo(S, n - 1) : Len(r) = n - 1}, x \in S}

ValidParts == {<<ACK>>, <<NAK>>, EqptListDoneFrame, ClearImageFrame}
Streams == SeqsUpTo(ValidParts, MaxFrames) \ {<<>>}

\* the encoder is called on a message and its output handed to the decoder
Encode ==
  /\ \E m \in EncodeInputs :
       /\ enc_item' = m
       /\ enc_dst' = encode(m)
       /\ dec_src' = encode(m)
  /\ dec_feed' = <<>> /\ dec_sent' = <<>> /\ dec_out' = <<>>
  /\ UNCHANGED <<linkVars, storeVars, facadeVars, wakeVars, panelVars>>

\* a byte stream is about to arrive
Load ==
  /\ \E parts \in Streams :
       /\ dec_sent' = parts
       /\ dec_feed' = Flatten(parts)
  /\ dec_src' = <<>> /\ dec_out' = <<>>
  /\ enc_item' = Plain("None") /\ enc_dst' = <<>>
  /\ UNCHANGED <<linkVars, storeVars, facadeVars, wakeVars, panelVars>>

\* decode has nothing more to give on the buffer as it is
Quiescent(d) == d.item = NoItem /\ d.buf = dec_src /\ d.ev # "panic"

\* the next chunk is read into the buffer, once decode asked for more
Feed ==
  /\ dec_feed # <<>>
  /\ Quiescent(Decode(dec_src))
  /\ \E k \in 1..Len(dec_feed) :
       /\ dec_src' = dec_src \o SubSeq(dec_feed, 1, k)
       /\ dec_feed' = SubSeq(dec_feed, k + 1, Len(dec_feed))
  /\ UNCHANGED <<enc_item, enc_dst, dec_sent, dec_out, linkVars, storeVars, facadeVars, wakeVars, panelVars>>

\* what one call of decode does to the buffer and the output
Decoded(d) ==
  /\ ~Quiescent(d) /\ d.ev # "panic"
  /\ dec_src' = d.buf
  /\ dec_out' = IF d.item = NoItem THEN dec_out ELSE Append(dec_out, d.item)

DecodeStep ==
  /\ Decoded(Decode(dec_src))
  /\ UNCHANGED <<enc_item, enc_dst, dec_feed, dec_sent, linkVars, storeVars, facadeVars, wakeVars, panelVars>>

CodecNext == Encode \/ Load \/ Feed \/ DecodeStep

CodecSpec == Init /\ [][CodecNext]_vars

\* the decoder on its own against frames with characters that are no hex
\* digits, each followed by a valid frame
DamagedParts == {NonHexLengthFrame, NonHexPayloadFrame, SignedPayloadFrame}
DamagedStreams ==
  {<<d, v>> : d \in DamagedParts, v \in {EqptListDoneFrame, ClearImageFrame}}

\* a frame of length 00 followed by a valid frame or a control byte
StalledStreams ==
  {<<ZeroLengthFrame, v>> : v \in {EqptListDoneFrame, ClearImageFrame, <<ACK>>}}

LoadDamaged ==
  /\ \E parts \in DamagedStreams \cup StalledStreams :
       /\ dec_sent' = parts
       /\ dec_feed' = Flatten(parts)
  /\ dec_src' = <<>> /\ dec_out' = <<>>
  /\ enc_item' = Plain("None") /\ enc_dst' = <<>>
  /\ UNCHANGED <<linkVars, storeVars, facadeVars, wakeVars, panelVars>>

\* an expect() in decode fails: the call unwinds and decoding is over
PanicItem == [kind |-> "Panic", data |-> <<>>]
Unwound(d) ==
  /\ d.ev = "panic"
  /\ dec_out' = Append(dec_out, PanicItem)
  /\ UNCHANGED dec_src

DecodePanic ==
  /\ PanicItem \notin {dec_out[i] : i \in DOMAIN dec_out}
  /\ Unwound(Decode(dec_src))
  /\ UNCHANGED <<enc_item, enc_dst, dec_feed, dec_sent, linkVars, storeVars, facadeVars, wakeVars, panelVars>>

DamageNext == LoadDamaged \/ Feed \/ DecodeStep \/ DecodePanic

DamageSpec == Init /\ [][DamageNext]_vars

\* a step that is no poll of the stream writes nothing and yields nothing
NotPolled == wire' = <<>> /\ events' = <<>> /\ yielded' = NoPoll

\* the state poll_next leaves behind and what it returned
Returned(r) ==
  /\ has_errored' = r.s.has_errored
  /\ preparing' = r.s.preparing
  /\ ready' = r.s.ready
  /\ sending' = r.s.sending
  /\ resend' = r.s.resend
  /\ elapsed' = r.s.elapsed
  /\ retry_count' = r.s.retry_count
  /\ last_message' = r.s.last_message
  /\ rx' = r.s.rx
  /\ serial' = r.s.serial
  /\ port' = r.s.port
  /\ wire' = r.s.wire
  /\ events' = r.s.events
  /\ yielded' = r.ret
  /\ panicked' = (r.ret = Panicked)

\* the consumer polls the stream
Poll ==
  /\ ~panicked
  /\ Returned(poll_next(Self))
  /\ UNCHANGED <<closed, storeVars, extVars>>

\* time passes
Tick ==
  /\ \E v \in ClockValues : v > elapsed /\ elapsed' = v
  /\ NotPolled
  /\ UNCHANGED <<has_errored, preparing, ready, sending, resend, retry_count,
                 last_message, rx, serial, port, closed,
                 panicked, storeVars, extVars>>

\* a caller submits a command through a clone of tx
Submit(commands) ==
  /\ HasCapacity(rx)
  /\ \E m \in commands : rx' = Enqueue(rx, m)
  /\ NotPolled
  /\ UNCHANGED <<has_errored, preparing, ready, sending, resend, elapsed,
                 retry_count, last_message, serial, port, closed, panicked, storeVars, extVars>>

CallerSend == Submit(DataCommands)
CallerSendAny == Submit(AnyCommands)

\* the panel writes to the line
PanelWrites(items) ==
  /\ ~closed
  /\ \E item \in items :
       /\ Len(port) + Len(serial.buffer) <= MaxBacklog
       /\ port' = port \o item
  /\ NotPolled
  /\ UNCHANGED <<has_errored, preparing, ready, sending, resend, elapsed,
                 retry_count, last_message, rx, serial, closed, panicked, storeVars, extVars>>

PanelSend == PanelWrites(PanelItems)
PanelSendFaulty == PanelWrites(FaultyItems)
PanelSendBasic == PanelWrites(BasicItems)

\* the serial device reaches end of file
PanelClose ==
  /\ ~closed
  /\ closed' = TRUE
  /\ NotPolled
  /\ UNCHANGED <<has_errored, preparing, ready, sending, resend, elapsed,
                 retry_count, last_message, rx, serial, port, panicked, storeVars, extVars>>

\* the link layer against a panel that follows the protocol
Next == Poll \/ Tick \/ CallerSend \/ PanelSend

Spec == Init /\ [][Next]_vars

\* the link layer against damaged frames and a device that goes away
FaultNext == Poll \/ Tick \/ CallerSend \/ PanelSendFaulty \/ PanelClose

FaultSpec == Init /\ [][FaultNext]_vars

\* the link layer against frames the decoder drops or cannot parse
PanelSendBroken == PanelWrites(BrokenItems)

BrokenNext == Poll \/ Tick \/ PanelSendBroken

BrokenSpec == Init /\ [][BrokenNext]_vars

\* The link layer against a panel that answers every command it receives with
\* one Ack, at its own pace.  A command written to the port, first time or
\* again, has reached the panel; the Ack the decoder hands out is the oldest
\* one on the line.
IsTransmission(w) == w.src \in {"send", "resend"}
Transmitted(w) ==
  [i \in 1..Len(SelectSeq(w, IsTransmission)) |-> SelectSeq(w, IsTransmission)[i].msg]

AnsweredPoll ==
  /\ ~panicked
  /\ Returned(poll_next(Self))
  /\ owed' = owed \o Transmitted(wire')
  /\ Len(owed') + Len(acks) <= MaxOwed
  /\ acks' = IF \E i \in DOMAIN events' : events'[i] = "ctrl" THEN Tail(acks) ELSE acks
  /\ UNCHANGED <<closed, storeVars, codecVars, facadeVars, wakeVars>>

\* the panel answers the oldest command it has not answered yet
PanelAnswer ==
  /\ owed # <<>>
  /\ port' = port \o <<ACK>>
  /\ acks' = Append(acks, Head(owed))
  /\ owed' = Tail(owed)
  /\ NotPolled
  /\ UNCHANGED <<has_errored, preparing, ready, sending, resend, elapsed,
                 retry_count, last_message, rx, serial, closed, panicked,
                 storeVars, codecVars, facadeVars, wakeVars>>

\* the panel sends a record of its own
PanelRecord ==
  /\ Len(port) + Len(serial.buffer) <= MaxOwed
  /\ port' = port \o EqptListDoneFrame
  /\ NotPolled
  /\ UNCHANGED <<has_errored, preparing, ready, sending, resend, elapsed,
                 retry_count, last_message, rx, serial, closed, panicked,
                 storeVars, extVars>>

AnswerNext == AnsweredPoll \/ Tick \/ CallerSend \/ PanelAnswer \/ PanelRecord

AnswerSpec == Init /\ [][AnswerNext]_vars

\* The task that owns the stream runs poll_next only when it has been woken.
\* A returned item makes the consumer poll again at once; Pending parks the
\* task until a waker registered by the poll fires.  serial.next() registers
\* with the port; rx.recv() registers with the channel when its branch was
\* polled and found the channel empty; nothing in serial_loop registers a timer.
WakeReturned(r) ==
  /\ Returned(r)
  /\ woken' = (r.ret.tag \in {"Ok", "Err"})
  /\ rx_waker' = (rx_waker \/ r.s.rx_polled)

WakePoll ==
  /\ woken /\ ~panicked
  /\ WakeReturned(poll_next(Self))
  /\ UNCHANGED <<closed, storeVars, codecVars, facadeVars, panelVars>>

\* a caller's send wakes the task if the channel holds its waker
WakeCallerSend ==
  /\ HasCapacity(rx)
  /\ \E m \in DataCommands : rx' = Enqueue(rx, m)
  /\ NotPolled
  /\ woken' = (woken \/ rx_waker)
  /\ rx_waker' = FALSE
  /\ UNCHANGED <<has_errored, preparing, ready, sending, resend, elapsed,
                 retry_count, last_message, serial, port, closed, panicked,
                 storeVars, codecVars, facadeVars, panelVars>>

\* bytes from the panel wake the task
WakePanelSend ==
  /\ ~closed
  /\ \E item \in PanelItems :
       /\ Len(port) + Len(serial.buffer) <= MaxBacklog
       /\ port' = port \o item
  /\ NotPolled
  /\ woken' = TRUE
  /\ UNCHANGED <<has_errored, preparing, ready, sending, resend, elapsed,
                 retry_count, last_message, rx, serial, closed, panicked,
                 rx_waker, storeVars, codecVars, facadeVars, panelVars>>

WakeNext == WakePoll \/ Tick \/ WakeCallerSend \/ WakePanelSend

\* Time passes, and the task is scheduled whenever it is woken: weak fairness
\* of WakePoll, written out with its enabling condition woken /\ ~panicked.
WakeSpec ==
  /\ Init /\ [][WakeNext]_vars
  /\ WF_vars(Tick)
  /\ (<>[](woken /\ ~panicked) => []<><<WakePoll>>_vars)

\* the link layer with callers that also submit Ack and Nak
CallerNext == Poll \/ Tick \/ CallerSendAny \/ PanelSendBasic

CallerSpec == Init /\ [][CallerNext]_vars

\* the state store fed with records
NotRecorded == UNCHANGED <<handled, linkVars, extVars>>

ZoneDataEvent == \E d \in ZoneDataRecords : handle_zone_data(d) /\ NotRecorded
ZoneStatusEvent == \E d \in ZoneStatusRecords : handle_zone_status(d) /\ NotRecorded
PartitionDataEvent ==
  \E d \in PartitionDataRecords : handle_partition_data(d) /\ NotRecorded
ArmingLevelEvent ==
  \E d \in ArmingLevelRecords : handle_arming_level(d) /\ NotRecorded
PanelTypeEvent == \E d \in PanelTypes : handle_panel_type(d) /\ NotRecorded

StoreNext == \/ ZoneDataEvent \/ ZoneStatusEvent \/ PartitionDataEvent
             \/ ArmingLevelEvent \/ PanelTypeEvent

StoreSpec == Init /\ [][StoreNext]_vars

\* handle_result with the dispatched record kept for inspection
Handled(kind, data) ==
  handled' = [kind |-> kind, data |-> data] /\ UNCHANGED <<linkVars, extVars>>

handle_result ==
  \/ \E d \in ZoneDataRecords : handle_zone_data(d) /\ Handled("ZoneData", d)
  \/ \E d \in ZoneStatusRecords : handle_zone_status(d) /\ Handled("ZoneStatus", d)
  \/ \E d \in PartitionDataRecords : handle_partition_data(d) /\ Handled("PartitionData", d)
  \/ \E d \in ArmingLevelRecords : handle_arming_level(d) /\ Handled("ArmingLevel", d)
  \/ \E d \in PanelTypes : handle_panel_type(d) /\ Handled("PanelType", d)

RecordSpec == Init /\ [][handle_result]_vars


\* ---------------------------------------------------- Concord4 (src/lib.rs)
FacadeCap == 1
\* Arm and ToggleChime with partition: None, which addresses partition 1
ArmCommands == {"Arm", "ToggleChime"}
FacadeCommands == ArmCommands \cup {"Disarm", Keypress}
ReaderKinds == {"EqptListDone", "ClearImage", "SirenSync"}

\* lines 153-227, one message taken from the reader
\* lines 184-196: PartitionData is stored as parsed
OnPartitionData(data) ==
  /\ partitions' = Insert(partitions, data.partition_number,
                          [partition_number |-> data.partition_number,
                           area_number |-> data.area_number,
                           arming_level |-> data.arming_level,
                           zones |-> {}])
  /\ UNCHANGED initialized

\* lines 197-211
OnArmingLevel(data) ==
  /\ partitions' = IF data.partition_number \in DOMAIN partitions
                     THEN [partitions EXCEPT
                             ![data.partition_number].arming_level = data.arming_level]
                     ELSE partitions
  /\ UNCHANGED initialized

OnOther_Cleared(kind) ==
  /\ initialized' = IF kind = "EqptListDone" THEN TRUE
                     ELSE IF kind = "ClearImage" THEN FALSE ELSE initialized
  /\ UNCHANGED partitions

\* lines 212-227: EqptListDone sets the flag, the other kinds are only traced
OnOther(kind) ==
  /\ initialized' = IF kind = "EqptListDone" /\ ~initialized THEN TRUE ELSE initialized
  /\ UNCHANGED partitions

reader_listen ==
  /\ \/ \E d \in PartitionDataRecords :
          OnPartitionData(d) /\ reader_msg' = "PartitionData"
     \/ \E d \in ArmingLevelRecords :
          OnArmingLevel(d) /\ reader_msg' = "ArmingLevel"
     \/ \E k \in ReaderKinds : OnOther(k) /\ reader_msg' = k
  /\ writer_out' = "None"
  /\ UNCHANGED <<waiter, writer_rx, writer_waiting, zones, groups, panel, handled,
                 linkVars, codecVars, wakeVars, panelVars>>

\* lines 117-121: wait_ready is called, and its loop looks at the flag
WaitReadyCall ==
  /\ waiter = "idle" /\ waiter' = "waiting"
  /\ writer_out' = "None"
  /\ UNCHANGED <<reader_msg, initialized, writer_rx, writer_waiting, linkVars, storeVars,
                 codecVars, wakeVars, panelVars>>

WaitReadyLoop ==
  /\ waiter = "waiting" /\ initialized
  /\ waiter' = "resolved"
  /\ writer_out' = "None"
  /\ UNCHANGED <<reader_msg, initialized, writer_rx, writer_waiting, linkVars, storeVars,
                 codecVars, wakeVars, panelVars>>

\* a caller sends a command through Concord4::tx
FacadeSend ==
  /\ Len(writer_rx) < FacadeCap
  /\ \E m \in FacadeCommands : writer_rx' = Append(writer_rx, m)
  /\ writer_out' = "None"
  /\ UNCHANGED <<reader_msg, initialized, waiter, writer_waiting, linkVars, storeVars,
                 codecVars, wakeVars, panelVars>>

\* lines 246-252: writer_listen takes a command and writes it
writer_listen ==
  /\ ~writer_waiting /\ writer_rx # <<>>
  /\ writer_out' = Head(writer_rx)
  /\ writer_rx' = Tail(writer_rx)
  /\ writer_waiting' = (Head(writer_rx) \notin {"Ack", "Nak"})
  /\ UNCHANGED <<reader_msg, initialized, waiter, linkVars, storeVars, codecVars, wakeVars, panelVars>>

\* lines 254-259: the wait for the panel's answer ends (answer or 2 s)
WriterResume ==
  /\ writer_waiting /\ writer_waiting' = FALSE
  /\ writer_out' = "None"
  /\ UNCHANGED <<reader_msg, initialized, waiter, writer_rx, linkVars, storeVars,
                 codecVars, wakeVars, panelVars>>

FacadeNext == \/ reader_listen \/ WaitReadyCall \/ WaitReadyLoop
              \/ FacadeSend \/ writer_listen \/ WriterResume

FacadeSpec == Init /\ [][FacadeNext]_vars /\ WF_vars(WaitReadyLoop)

\* ----------------------------------------------------------------- claims
IsPrefix(a, b) == Len(a) <= Len(b) /\ SubSeq(b, 1, Len(a)) = a
Written(w, src) == {i \in DOMAIN w : w[i].src = src}
HasEvent(evs, e) == \E i \in DOMAIN evs : evs[i] = e
Polled(y) == y.tag # "NoPoll"
InFlight == sending /\ IsDataCommand(last_message)

\* C1: at most one data command is in flight.  A command taken from the
\* channel becomes the outstanding one; while a data command is outstanding
\* no step takes a command from the channel and queued commands stay queued;
\* the outstanding command is only resolved by an Ack/Nak from the panel or
\* by the timeout after the last retry.
C1_OneInFlight ==
  [][ /\ \A i \in Written(wire', "send") :
           sending' /\ last_message' = wire'[i].msg
      /\ InFlight => Written(wire', "send") = {} /\ IsPrefix(rx, rx')
      /\ (sending /\ ~sending') =>
           \/ yielded'.tag = "Ok" /\ yielded'.kind \in {"Ack", "Nak"}
           \/ retry_count = MAX_RETRIES /\ elapsed >= TIMEOUT_THRESHOLD
    ]_vars

\* a poll has left a second command in the queue behind the outstanding one
C1_Witness ==
  /\ sending /\ last_message = Keypress /\ rx # <<>>
  /\ yielded.tag = "Pending"

\* C2: a poll in which the decoder accepts a frame (a Record) writes exactly
\* one Ack in answer, as its last write, handles no other inbound item and
\* takes no command from the channel.
C2_AcceptedFrameAcked ==
  [][ HasEvent(events', "frame") =>
        /\ Cardinality(Written(wire', "reply")) = 1
        /\ wire'[Len(wire')] = [src |-> "reply", msg |-> "Ack"]
        /\ Written(wire', "send") = {}
        /\ Cardinality({i \in DOMAIN events' : events'[i] \in {"frame", "ctrl"}}) = 1
    ]_vars

C2_Witness ==
  /\ yielded.tag = "Ok" /\ yielded.kind = "EqptListDone"
  /\ wire = <<[src |-> "reply", msg |-> "Ack"]>>

\* C3 (as claimed): a poll in which the decoder consumes a frame with a wrong
\* checksum emits no Record for it and writes a Nak.
C3_BadChecksumNaked ==
  [][ HasEvent(events', "checksum") =>
        /\ ~HasEvent(events', "frame")
        /\ \E i \in DOMAIN wire' : wire'[i].msg = "Nak"
    ]_vars

\* C4 (as claimed): a poll in which the decoder discards a checksum-valid
\* frame with an unknown command code still writes an Ack for it.
C4_UnparsedFrameAcked ==
  [][ HasEvent(events', "parse") =>
        /\ ~HasEvent(events', "frame")
        /\ Written(wire', "reply") # {}
        /\ ~panicked'
    ]_vars

\* C5: a retransmission happens only 2 s or more after the last transmission
\* and repeats the stored command, which is the one last taken from the
\* channel; the retry counter never exceeds 5; a poll that finds the command
\* unanswered 2 s after the fifth retry abandons it, and the command branch
\* is open again.
C5_BoundedRetry ==
  [][ /\ \A i \in Written(wire', "resend") :
           /\ elapsed >= TIMEOUT_THRESHOLD
           /\ sending /\ retry_count < MAX_RETRIES
           /\ wire'[i].msg = last_message
      /\ Cardinality(Written(wire', "resend")) <= 1
      /\ \A i \in Written(wire', "send") : last_message' = wire'[i].msg
      /\ (last_message' # last_message) =>
           Written(wire', "send") # {} \/ last_message' = "None"
      /\ retry_count' <= MAX_RETRIES
      /\ ( /\ Polled(yielded') /\ ~has_errored
           /\ sending /\ retry_count = MAX_RETRIES
           /\ elapsed >= TIMEOUT_THRESHOLD ) =>
           /\ ~sending' /\ retry_count' = 0
           /\ Written(wire', "resend") = {}
    ]_vars

\* the command was abandoned after five retries
C5_Witness ==
  /\ ~sending /\ last_message = Keypress /\ retry_count = 0
  /\ yielded.tag = "Pending" /\ wire = <<>>

\* C6: the channel is first in, first out.  A step that writes a command
\* taken from the channel writes the oldest accepted one, counting what the
\* link layer itself enqueued in that step; any other step only appends to
\* the queue; a retransmission repeats the outstanding command.
C6_SendOrder ==
  [][ /\ \A i \in Written(wire', "send") : IsPrefix(rx, <<wire'[i].msg>> \o rx')
      /\ Cardinality(Written(wire', "send")) <= 1
      /\ Written(wire', "send") = {} => IsPrefix(rx, rx')
      /\ \A i \in Written(wire', "resend") : sending /\ wire'[i].msg = last_message
    ]_vars

\* a caller's command went out ahead of the link layer's own, queued behind it
C6_Witness ==
  /\ wire = <<[src |-> "send", msg |-> Keypress]>>
  /\ rx = <<ListAllData>>

\* C7 (as claimed): a step that writes nothing but Ack or Nak leaves an idle
\* link idle.
C7_AckNotAwaited ==
  [][ ( /\ ~sending /\ wire' # <<>>
        /\ \A i \in DOMAIN wire' : wire'[i].msg \in {"Ack", "Nak"} )
      => ~sending'
    ]_vars

\* C8: every partition entry's zone set is the set of identifiers of the
\* stored zones of that partition.
C8_PartitionZonesExact ==
  \A p \in DOMAIN partitions :
    partitions[p].zones =
      {id \in DOMAIN zones : zones[id].partition_number = partitions[p].partition_number}

C8_Witness ==
  /\ 1 \in DOMAIN partitions /\ partitions[1].zones = {ZoneId(1, 1)}
  /\ ZoneId(2, 1) \in DOMAIN zones

\* C9: every zone identifier in a partition's zone set is a key of zones.
C9_PartitionZonesStored ==
  \A p \in DOMAIN partitions : partitions[p].zones \subseteq DOMAIN zones

C9_Witness ==
  /\ 2 \in DOMAIN partitions
  /\ partitions[2].zones = {ZoneId(2, 1), ZoneId(2, 2)}

WireBytes(bytes) == ascii_hex_to_bin(Tail(bytes)).data
IsDataFrame(m) == m.cmd \notin {"None", "Ack", "Nak"}

\* C11 (as claimed): every data frame the encoder emits starts with a line
\* feed and carries a length byte equal to 1 + the number of body bytes and,
\* last, a checksum equal to (length byte + sum of the body bytes) mod 256.
C11_FrameWellFormed ==
  IsDataFrame(enc_item) =>
    /\ enc_dst[1] = LF
    /\ Len(WireBytes(enc_dst)) >= 2
    /\ WireBytes(enc_dst)[1] = 1 + (Len(WireBytes(enc_dst)) - 2)
    /\ WireBytes(enc_dst)[Len(WireBytes(enc_dst))] =
         SumSeq(SubSeq(WireBytes(enc_dst), 1, Len(WireBytes(enc_dst)) - 1)) % 256

\* decode applied to a whole buffer until it gives nothing more
RECURSIVE DecodeAll(_, _)
DecodeAll(bytes, emitted) ==
  IF Decode(bytes).item = NoItem /\ Decode(bytes).buf = bytes
    THEN [out |-> emitted, rest |-> bytes]
    ELSE DecodeAll(Decode(bytes).buf,
                   IF Decode(bytes).item = NoItem THEN emitted
                   ELSE Append(emitted, Decode(bytes).item))

AllFed == dec_sent # <<>> /\ dec_feed = <<>> /\ Quiescent(Decode(dec_src))
IncompleteFrame(bytes) ==
  \E f \in {EqptListDoneFrame, ClearImageFrame} :
    bytes # <<>> /\ Len(bytes) < Len(f) /\ IsPrefix(bytes, f)

\* C12: once every chunk of a concatenation of valid frames has been fed and
\* decoded, the items emitted and the bytes left over are those of decoding
\* the whole concatenation at once; on a buffer that holds only an
\* incomplete frame decode returns nothing and leaves the buffer as it is.
C12_SplitInvariant ==
  /\ AllFed =>
       /\ dec_out = DecodeAll(Flatten(dec_sent), <<>>).out
       /\ dec_src = DecodeAll(Flatten(dec_sent), <<>>).rest
  /\ IncompleteFrame(dec_src) =>
       Decode(dec_src).item = NoItem /\ Decode(dec_src).buf = dec_src

\* items were emitted and the buffer now holds only part of the next frame
C12_Witness == IncompleteFrame(dec_src) /\ Len(dec_out) = 2 /\ dec_feed # <<>>

PartKind(part) ==
  IF part = <<ACK>> THEN "Ack"
  ELSE IF part = <<NAK>> THEN "Nak"
  ELSE IF part = EqptListDoneFrame THEN "EqptListDone"
  ELSE "ClearImage"

\* C13 (as claimed): once a stream of control bytes and frames has been fed
\* and decoded, every control byte and every frame has been emitted, in the
\* order of the stream.
C13_AllEmittedInOrder ==
  AllFed =>
    /\ Len(dec_out) = Len(dec_sent)
    /\ \A i \in 1..Len(dec_sent) : dec_out[i].kind = PartKind(dec_sent[i])

\* C14 (as claimed): the bytes the encoder produces for a command decode to
\* that one command.
C14_RoundTrip ==
  (enc_item.cmd # "None" /\ Quiescent(Decode(dec_src))) =>
    Len(dec_out) = 1 /\ dec_out[1].kind = enc_item.cmd

\* C17 (as claimed): when the first Ack or Nak byte of the buffer comes before
\* any line feed, or the buffer holds no line feed, decode strips exactly that
\* byte and emits Ack or Nak.
C17_ControlStripped ==
  ( /\ Position(dec_src, {ACK, NAK}) # 0
    /\ \/ Position(dec_src, {LF}) = 0
       \/ Position(dec_src, {ACK, NAK}) < Position(dec_src, {LF}) )
  => /\ Decode(dec_src).item.kind =
          (IF dec_src[Position(dec_src, {ACK, NAK})] = ACK THEN "Ack" ELSE "Nak")
     /\ Decode(dec_src).buf =
          SubSeq(dec_src, 1, Position(dec_src, {ACK, NAK}) - 1)
            \o SubSeq(dec_src, Position(dec_src, {ACK, NAK}) + 1, Len(dec_src))

\* C15: state.initialized becomes true when EqptListDone is handled and no
\* message, ClearImage and a repeated EqptListDone included, clears it again;
\* a wait_ready call returns only when the flag is set, and does return then.
C15_InitializedLatched ==
  /\ [][initialized => initialized']_vars
  /\ [][reader_msg' = "EqptListDone" => initialized']_vars
  /\ [](waiter = "resolved" => initialized)
  /\ ((waiter = "waiting" /\ initialized) ~> (waiter = "resolved"))

C15_Witness == initialized /\ reader_msg = "ClearImage" /\ waiter = "resolved"

ArmedPartition(p) == p \in DOMAIN partitions /\ partitions[p].arming_level # "Off"

\* C16: while partition 1 is known at an arming level other than Off, no Arm
\* and no ToggleChime for it is accepted for sending.
C16_ArmedRefused ==
  [][ArmedPartition(1) => \A m \in ArmCommands : writer_rx' # Append(writer_rx, m)]_vars

\* C18: a data command that stays unanswered is eventually retransmitted (or
\* is no longer outstanding) even if the panel sends no byte in the meantime.
C18_TimerDrivesRetry ==
  (InFlight /\ retry_count = 0) ~> (~InFlight \/ retry_count > 0 \/ port # <<>>)

\* C19: a poll that yields Ack or Nak leaves no stored message, a retry
\* counter of 0, no pending resend and no command outstanding, for Nak as for
\* Ack; a resend is pending only for a command that is still outstanding, and
\* a retransmission is written only when one was pending.
C19_ControlClears ==
  /\ [][(yielded'.tag = "Ok" /\ yielded'.kind \in {"Ack", "Nak"}) =>
          /\ last_message' = "None" /\ retry_count' = 0
          /\ ~resend' /\ ~sending']_vars
  /\ [](resend => sending /\ last_message # "None")
  /\ [][\A i \in Written(wire', "resend") : resend /\ wire'[i].msg = last_message]_vars

C19_Witness ==
  yielded.tag = "Ok" /\ yielded.kind = "Nak" /\ Written(wire, "resend") # {}

\* C20: a poll in which the decoder accepts a ClearImage frame leaves
\* preparing set and List(AllData) appended to the command channel, whatever
\* the link state was.
C20_ClearImageReloads ==
  [][(HasEvent(events', "frame") /\ IsPrefix(ClearImageFrame, serial.buffer \o port)) =>
        preparing' /\ Len(rx') > Len(rx) /\ rx'[Len(rx')] = ListAllData]_vars

\* the step is a poll in which the decoder accepts the given frame
Accepts(frame) ==
  HasEvent(events', "frame") /\ IsPrefix(frame, serial.buffer \o port)

\* C21: a poll that accepts EqptListDone while the link is not ready leaves
\* it ready and not preparing, with DynamicDataRefresh appended to the command
\* channel; one that accepts it while ready leaves the channel as it was.
C21_EqptListDoneReady ==
  [][Accepts(EqptListDoneFrame) =>
       IF ready THEN ready' /\ rx' = rx
       ELSE /\ ready' /\ ~preparing'
            /\ Len(rx') > Len(rx) /\ rx'[Len(rx')] = DynamicDataRefresh
            /\ Cardinality({i \in DOMAIN rx' : rx'[i] = DynamicDataRefresh})
                 = Cardinality({i \in DOMAIN rx : rx[i] = DynamicDataRefresh}) + 1]_vars

\* C22: a poll that accepts ClearImage while the link is ready leaves it not
\* ready, and a poll that accepts EqptListDone while the link is preparing
\* clears preparing and appends DynamicDataRefresh to the command channel.
C22_ClearImageUnready ==
  /\ [][(Accepts(ClearImageFrame) /\ ready) => ~ready']_vars
  /\ [][(Accepts(EqptListDoneFrame) /\ preparing) =>
          /\ ~preparing'
          /\ Len(rx') > Len(rx) /\ rx'[Len(rx')] = DynamicDataRefresh]_vars

\* C28: after ZoneData is handled the zone's partition has an entry, and that
\* entry's zone set holds the zone's identifier.
C28_ZoneDataPartition ==
  [][handled'.kind = "ZoneData" =>
       /\ handled'.data.partition_number \in DOMAIN partitions'
       /\ ZoneId(handled'.data.partition_number, handled'.data.zone_number)
            \in partitions'[handled'.data.partition_number].zones]_vars

\* C29: after ZoneData is handled the zone's group has an entry, and that
\* entry's zone set holds the zone's identifier.
C29_ZoneDataGroup ==
  [][handled'.kind = "ZoneData" =>
       /\ GroupId(handled'.data.partition_number, handled'.data.group_number)
            \in DOMAIN groups'
       /\ ZoneId(handled'.data.partition_number, handled'.data.zone_number)
            \in groups'[GroupId(handled'.data.partition_number,
                                handled'.data.group_number)].zones]_vars

\* the zone a ZoneStatus record refers to
StatusTarget(data) == ZoneId(data.partition_number, data.zone_number)

\* C30: handling ZoneStatus leaves partitions, groups, the panel and the set
\* of zone keys as they were, and every zone other than the referenced one;
\* the referenced zone, if stored, differs at most in its status, which is
\* the record's.
C30_ZoneStatusOnly ==
  [][handled'.kind = "ZoneStatus" =>
       /\ UNCHANGED <<partitions, groups, panel>>
       /\ DOMAIN zones' = DOMAIN zones
       /\ \A id \in DOMAIN zones :
            zones'[id] = IF id = StatusTarget(handled'.data)
                           THEN [zones[id] EXCEPT !.zone_status = handled'.data.zone_status]
                           ELSE zones[id]]_vars

C30_Witness ==
  /\ handled.kind = "ZoneStatus"
  /\ handled.data.partition_number = 1 /\ handled.data.zone_number = 1
  /\ handled.data.zone_status = "Tripped"
  /\ ZoneId(1, 1) \in DOMAIN zones /\ zones[ZoneId(1, 1)].zone_status = "Tripped"
  /\ ZoneId(2, 1) \notin DOMAIN zones

\* C27: for a frame with a character that is no hex digit in its length
\* field or payload, followed by a valid frame, decode emits nothing for the
\* first, does not fail, and emits the second once its bytes are there.
C27_NonHexDropped ==
  (dec_sent # <<>> /\ dec_sent[1] \in DamagedParts) =>
    /\ Len(dec_out) <= 1
    /\ \A i \in DOMAIN dec_out : dec_out[i].kind = PartKind(dec_sent[2])
    /\ AllFed => Len(dec_out) = 1

\* a link that has just been constructed: nothing received, queued or sent
Fresh ==
  /\ ~ready /\ ~preparing /\ ~sending /\ last_message = "None"
  /\ rx = <<>> /\ port = <<>> /\ serial.buffer = <<>> /\ elapsed = 0

\* C23 (as claimed): the first poll of a link that has just been constructed
\* sends List(AllData) and leaves the link preparing with that command
\* outstanding.
C23_StartsWithList ==
  [][(Fresh /\ Polled(yielded')) =>
       /\ preparing' /\ sending' /\ last_message' = ListAllData
       /\ \E i \in Written(wire', "send") : wire'[i].msg = ListAllData]_vars

\* List(AllData) commands queued in q, and those a poll's writes w sent
Queued(q) == Cardinality({i \in DOMAIN q : q[i] = ListAllData})
Sent(w) == Cardinality({i \in Written(w, "send") : w[i].msg = ListAllData})

\* the condition of line 77 on the state a poll starts from
FallbackDue ==
  ~ready /\ ~preparing /\ ~sending /\ elapsed > BOOTSTRAP_SECS /\ ~has_errored

\* C23 (amended): the first poll of a link that has just been constructed
\* writes nothing, queues nothing and leaves the link neither preparing nor
\* awaiting an answer; the link adds a List(AllData) of its own only in a
\* poll that accepts ClearImage or that starts more than 10 s after
\* construction or the last send with the link neither ready, preparing nor
\* awaiting an answer.
C23_StartsSilent ==
  /\ [][(Fresh /\ Polled(yielded')) =>
          /\ wire' = <<>> /\ rx' = <<>>
          /\ ~preparing' /\ ~sending' /\ last_message' = "None"]_vars
  /\ [][Queued(rx') + Sent(wire') > Queued(rx) =>
          Accepts(ClearImageFrame) \/ FallbackDue]_vars

\* the fresh link has been polled
C23_Witness ==
  /\ Polled(yielded) /\ yielded = Pending /\ wire = <<>>
  /\ ~ready /\ ~preparing /\ ~sending /\ last_message = "None"
  /\ rx = <<>> /\ port = <<>> /\ serial.buffer = <<>> /\ elapsed = 0

\* C24: a poll that starts more than 10 s after the last send with the link
\* neither ready, preparing nor awaiting an answer adds a List(AllData) to
\* the command channel and leaves the link preparing (or ready, when
\* EqptListDone came in that poll); no other poll adds a List(AllData) unless
\* it accepts ClearImage.
C24_BootstrapOnce ==
  [][Polled(yielded') =>
       IF FallbackDue
         THEN /\ preparing' \/ ready'
              /\ Queued(rx') + Sent(wire') > Queued(rx)
         ELSE Accepts(ClearImageFrame) \/ Queued(rx') + Sent(wire') = Queued(rx)]_vars

\* C25: while the link is preparing, at most one List(AllData) is queued or
\* outstanding.
C25_OneListInFlight ==
  preparing =>
    Queued(rx) + (IF sending /\ last_message = ListAllData THEN 1 ELSE 0) <= 1

\* C26: a poll that takes a command from the channel found no inbound item
\* ready; a poll that finds one handles it and sends no command.
C26_InboundFirst ==
  /\ [][Written(wire', "send") # {} =>
          FramedNext(serial, port, closed, <<>>).res = "Pending"]_vars
  /\ [][(HasEvent(events', "frame") \/ HasEvent(events', "ctrl")) =>
          Written(wire', "send") = {}]_vars

\* EqptListDone was yielded while a command was queued and none outstanding
C26_Witness ==
  /\ yielded.tag = "Ok" /\ yielded.kind = "EqptListDone"
  /\ ~sending /\ last_message = "None"
  /\ rx # <<>> /\ Head(rx) = Keypress

\* C31: handling ArmingLevel leaves zones, groups, the panel and the set of
\* partition keys as they were, and every partition other than the referenced
\* one; the referenced partition, if stored, differs at most in its arming
\* level, which is the record's; if it is not stored none is created.
C31_ArmingLevelOnly ==
  [][handled'.kind = "ArmingLevel" =>
       /\ UNCHANGED <<zones, groups, panel>>
       /\ DOMAIN partitions' = DOMAIN partitions
       /\ \A p \in DOMAIN partitions :
            partitions'[p] =
              IF p = handled'.data.partition_number
                THEN [partitions[p] EXCEPT !.arming_level = handled'.data.arming_level]
                ELSE partitions[p]]_vars

\* an arming level was applied to partition 1, which keeps its zone and area,
\* and one for partition 2, which is not stored, would have been dropped
C31_Witness ==
  /\ handled.kind = "ArmingLevel"
  /\ handled.data.partition_number = 1 /\ handled.data.arming_level = "Away"
  /\ 1 \in DOMAIN partitions /\ partitions[1].arming_level = "Away"
  /\ partitions[1].zones = {ZoneId(1, 1)} /\ partitions[1].area_number = 1
  /\ 2 \notin DOMAIN partitions

\* C32: a PanelType record handled when the panel is already known replaces
\* the stored panel by the record's, and leaves zones, partitions and groups
\* as they were.
C32_PanelTypeOverwrites ==
  [][(handled'.kind = "PanelType" /\ panel # "Unset") =>
       /\ panel' = handled'.data
       /\ UNCHANGED <<zones, partitions, groups>>]_vars

\* impl From<u8> for ListRequest: the protocol code of each kind
ListRequestCode(req) ==
  CASE req = "AllData" -> 0
    [] req = "ZoneData" -> 3
    [] req = "PartData" -> 4
    [] req = "BusDevData" -> 5
    [] req = "BusCapData" -> 6
    [] req = "OutputData" -> 7
    [] req = "UserData" -> 9
    [] req = "ScheduleData" -> 10
    [] req = "EventData" -> 11
    [] req = "LightAttach" -> 12

\* the body of an encoded data frame: what stands between the length byte
\* and the checksum
WireBody(bytes) == SubSeq(WireBytes(bytes), 2, Len(WireBytes(bytes)) - 1)

\* C33: the frame encoded for List(AllData) has the body 02, and the frame
\* for List of any other kind the body 02 followed by the kind's protocol
\* code.
C33_ListKindCodes ==
  enc_item.cmd = "List" =>
    WireBody(enc_dst) = IF enc_item.req = "AllData" THEN <<2>>
                        ELSE <<2, ListRequestCode(enc_item.req)>>

\* C34: the frame encoded for Arm has the body 40, the partition (1 when none
\* is given), 00, then the key 5 if the level is Silent, the key 2 for Stay
\* or 3 for Away, the four code keys, and last the key 4 if the level is
\* Instant.
C34_ArmKeys ==
  enc_item.cmd = "Arm" =>
    WireBody(enc_dst) =
      <<64, IF enc_item.partition = <<>> THEN 1 ELSE enc_item.partition[1], 0>>
      \o (IF enc_item.level = <<"Silent">> THEN <<5>> ELSE <<>>)
      \o <<IF enc_item.mode = "Stay" THEN 2 ELSE 3>>
      \o enc_item.code
      \o (IF enc_item.level = <<"Instant">> THEN <<4>> ELSE <<>>)

\* Stay, code 1-2-3-4, Instant, no partition: "\n0A4001000201020304045B"
C34_Witness ==
  /\ enc_item = Message("Arm", "", "Stay", <<"Instant">>, <<1, 2, 3, 4>>, <<>>, <<>>)
  /\ enc_dst = <<LF, 48, 65, 52, 48, 48, 49, 48, 48, 48, 50, 48, 49, 48, 50,
                 48, 51, 48, 52, 48, 52, 53, 66>>
  /\ WireBody(enc_dst) = <<64, 1, 0, 2, 1, 2, 3, 4, 4>>

\* C35: a poll that consumes the panel's Ack or Nak writes no retransmission:
\* when the answer is there at the start of a poll that finds the resend mark
\* set, the answer is consumed and the command is not sent again.
C35_NoResendAfterAck ==
  [][HasEvent(events', "ctrl") => Written(wire', "resend") = {}]_vars

\* C36: the link layer is never stopped by its own full command channel: a
\* poll in which the decoder accepts a frame yields that Record, and a poll
\* of an open link whose port holds a complete frame reads it.
C36_NeverBlocked ==
  /\ [][HasEvent(events', "frame") => yielded'.tag = "Ok"]_vars
  /\ [][(Polled(yielded') /\ ~has_errored /\ serial.buffer = <<>>
          /\ port \in {EqptListDoneFrame, ClearImageFrame}) => events' # <<>>]_vars

\* C37: once a frame with the length field 00 and the valid frame or control
\* byte that follows it have been fed and decoded, the item that follows has
\* been emitted.
C37_ZeroLengthSkipped ==
  (dec_sent # <<>> /\ dec_sent[1] = ZeroLengthFrame /\ AllFed) =>
    /\ Len(dec_out) = 1
    /\ dec_out[1].kind = PartKind(dec_sent[2])

\* C38: no poll ends the link layer by a panic, whatever checksum-valid
\* frame the panel has sent: a frame with an empty or short body is dropped.
C38_NoFrameTerminates == ~panicked

\* the buffer holds a complete item, no byte is waiting on the port, and
\* nothing else stops the poll
ItemBuffered ==
  /\ Decode(serial.buffer).item # NoItem /\ port = <<>>
  /\ ~has_errored /\ ~panicked /\ ~(FallbackDue /\ ~HasCapacity(rx))

\* C39: a poll that finds a complete valid frame or control byte in the
\* buffer decodes it without further bytes from the port, also when the
\* frame before it was dropped.
C39_BufferedItemEmitted ==
  [][(ItemBuffered /\ Polled(yielded')) =>
       HasEvent(events', "frame") \/ HasEvent(events', "ctrl")]_vars

\* C40: the Ack a poll consumes while a command is outstanding is the panel's
\* answer to that command.
C40_AckMatchesCommand ==
  [][(HasEvent(events', "ctrl") /\ sending /\ acks # <<>>) =>
       Head(acks) = last_message]_vars

====
